---- MODULE Spec2Model ----
(***************************************************************************)
(* ForecastAI backend: demand forecasting (forecast_service.py), the      *)
(* forecast router (routers/forecasts.py) and the alert engine            *)
(* (alert_service.py), over the PostgreSQL tables forecasts and alerts.   *)
(*                                                                         *)
(* Quantities that the code holds as floats and rounds with round(x, 2)   *)
(* are held here in hundredths (1.0 is 100); dates are day numbers.       *)
(***************************************************************************)
EXTENDS Integers, Sequences, FiniteSets, TLC

VARIABLES
    sales,      \* table sales: sequence of rows [user, product, d, q], in sale_date order
    forecasts,  \* table forecasts as the sequential handlers leave it: sequence of rows
    today,      \* date.today()
    call,       \* the last service or router call and how it ended
    pg,         \* PostgreSQL: the committed rows of a table, and its sequences
    tx,         \* PostgreSQL: the open transaction of each concurrent request
    obs,        \* what the last concurrent reader was answered
    catalog,    \* settings.safety_stock_days, and tables products and inventory
    alerts      \* table alerts as the sequential handlers leave it, by product

vars == <<sales, forecasts, today, call, pg, tx, obs, catalog, alerts>>
seqVars == <<sales, forecasts, today, call, catalog, alerts>>
fcVars == <<pg, tx, obs, catalog, alerts>>
pgVars == <<pg, tx, obs>>

----------------------------------------------------------------------------
(* Bounds of the model *)

MaxSales == 8       \* sale rows of the product under forecast: 0..MaxSales
MaxQty == 1         \* quantity of one sale row: 0..MaxQty
MaxHorizon == 2     \* horizon_days: 0..MaxHorizon
MaxRuns == 2        \* requests one client sends, one after the other
MaxResolved == 1    \* alerts of a product that are marked resolved
MaxProducts == 11   \* products of one tenant in a batch run: 0..MaxProducts
MaxSteps == 4       \* horizon_days of a direct _make_predictions call: 1..MaxSteps
MaxSaleQty == 2     \* quantity of one create_sale request: 1..MaxSaleQty
MaxStock == 2       \* quantity_on_hand before the requests: 0..MaxStock
MaxIds == 3         \* product ids in one purchase-order request: 0..MaxIds
MaxPoCalls == 1     \* purchase-order requests served

PerDayChoices == {1, 2}     \* sale rows per selling day (or all rows on one day)
GapChoices == {1, 2}        \* days from one selling day to the next
FirstDay == 1               \* date of the first sale row
IdleChoices == {0}          \* days from the last sale to today

(* Program constants *)

MinHistory == 7             \* len(df) < 7
TestSizePct == 20           \* train_test_split(test_size=0.2)
TailLen == 30               \* df.tail(30)
Z196 == 196                 \* 1.96, in hundredths

Users == {1, 2}
Products == {1}             \* ids of the rows of table products
ProductIds == {1, 3}        \* ids a caller may pass; 3 has no product row
Owner(p) == 1               \* Product.user_id of product p

----------------------------------------------------------------------------
(* Arithmetic helpers *)

RECURSIVE SumSeq(_)
SumSeq(s) == IF s = <<>> THEN 0 ELSE s[1] + SumSeq(Tail(s))

MinOf(S) == CHOOSE x \in S : \A y \in S : x <= y
MaxOf(S) == CHOOSE x \in S : \A y \in S : x >= y
Max2(a, b) == IF a >= b THEN a ELSE b

SeqRange(s) == {s[i] : i \in 1..Len(s)}

\* the last k elements of s, all of s when it has fewer (Python s[-k:])
LastK(s, k) == IF Len(s) <= k THEN s ELSE SubSeq(s, Len(s) - k + 1, Len(s))

\* Python s[k:]
DropK(s, k) == IF k >= Len(s) THEN <<>> ELSE SubSeq(s, k + 1, Len(s))

\* num/den (den > 0) rounded to the nearest integer, ties to the even one:
\* round(x, 2) on a value held in hundredths
RoundHalfEven(num, den) ==
    LET q == num \div den
        r == num - q * den
    IN  IF 2 * r < den THEN q
        ELSE IF 2 * r > den THEN q + 1
        ELSE IF q % 2 = 0 THEN q ELSE q + 1

RECURSIVE SqrtSearch(_, _, _)
SqrtSearch(x, lo, hi) ==
    IF lo >= hi THEN lo
    ELSE LET mid == (lo + hi + 1) \div 2
         IN  IF mid * mid <= x THEN SqrtSearch(x, mid, hi)
             ELSE SqrtSearch(x, lo, mid - 1)

\* floor of the square root
ISqrt(x) == SqrtSearch(x, 0, IF x < 46340 THEN x ELSE 46340)

\* np.std of a sequence of quantities (population standard deviation), kept
\* exact as sqrt(rad) / n units, rad = n * sum(v^2) - sum(v)^2. The quantities
\* arrive in hundredths and are whole units: sale quantities are integers and
\* ModelPredict answers with one of them
StdC(q) ==
    LET n == Len(q)
        v == [i \in 1..n |-> q[i] \div 100]
        s1 == SumSeq(v)
        s2 == SumSeq([i \in 1..n |-> v[i] * v[i]])
    IN  [rad |-> n * s2 - s1 * s1, n |-> n]

----------------------------------------------------------------------------
(* ForecastService: the feature table *)

\* _get_sales_data: the sale rows of (self.user_id, product_id)
SalesOf(u, p) == SelectSeq(sales, LAMBDA s : s.user = u /\ s.product = p)

\* the column df['quantity']
Quantities(df) == [i \in 1..Len(df) |-> df[i].q]

RECURSIVE SumQtyOn(_, _, _)
SumQtyOn(df, d, i) ==
    IF i > Len(df) THEN 0
    ELSE (IF df[i].d = d THEN df[i].q ELSE 0) + SumQtyOn(df, d, i + 1)

\* the rows of the days on which something was sold, days without sale left out
DailyQtySellingDays(df) ==
    LET dates == {df[i].d : i \in 1..Len(df)}
        RECURSIVE Rows(_)
        Rows(D) == IF D = {} THEN <<>>
                   ELSE <<SumQtyOn(df, MinOf(D), 1)>> \o Rows(D \ {MinOf(D)})
    IN  Rows(dates)

\* _create_features: one row per calendar day from the first to the last sale
\* date, its quantity the sum of the day's sale rows, 0 for a day without one
\* (the column daily['quantity'], in units)
DailyQty(df) ==
    IF df = <<>> THEN <<>>
    ELSE LET dates == {df[i].d : i \in 1..Len(df)}
             first == MinOf(dates)
             last == MaxOf(dates)
         IN  [i \in 1..(last - first + 1) |-> SumQtyOn(df, first + i - 1, 1)]

\* daily['sale_date'].max()
LastDate(df) == MaxOf({df[i].d : i \in 1..Len(df)})

----------------------------------------------------------------------------
(* ForecastService: the demand model *)

\* train_test_split(test_size=0.2, shuffle=False): the number of training rows
\* of n rows, n - ceil(0.2 n); 0 makes train_test_split raise ValueError
NTrain(n) == n - ((n * TestSizePct + 99) \div 100)

\* y_train: the quantity of the first NTrain rows
TrainTargets(daily) == SubSeq(daily, 1, NTrain(Len(daily)))

\* RandomForestRegressor.fit / predict: a forest of regression trees answers
\* with an average of training targets, so with a value between the least and
\* the greatest of them; which one is not decided here: vote picks an end of
\* that range (in hundredths)
ModelPredict(targets, vote) ==
    IF vote = "lo" THEN 100 * MinOf(SeqRange(targets))
    ELSE 100 * MaxOf(SeqRange(targets))

Votes == {"lo", "hi"}

\* quantities of step i: the tail of the history, its first len(predictions)
\* elements dropped, followed by the predictions made so far
StepQuantities(recent, predQty) ==
    IF Len(predQty) > 0 THEN DropK(recent, Len(predQty)) \o predQty ELSE recent

\* a standard deviation of 0
NoStd == [rad |-> 0, n |-> 1]

\* features['rolling_std_30']
RollingStd30(quantities) ==
    LET w == LastK(quantities, TailLen)
    IN  IF Len(w) > 1 THEN StdC(w) ELSE NoStd

\* pred = max(0, pred)
ClampPrediction(pred) == Max2(0, pred)

\* floor of 2 * n * 1.96 * std in hundredths, with std = sqrt(rad) / n units
Width2n(std) == ISqrt((2 * Z196) * (2 * Z196) * std.rad)

\* 1.96 * std is a whole multiple of 1 / (2 n) hundredths
WidthExact(std) == Width2n(std) * Width2n(std) = (2 * Z196) * (2 * Z196) * std.rad

\* round(pred - 1.96 * std, 2), without the max(0, ...)
ConfidenceLowerNoClamp(pred, std) ==
    IF WidthExact(std) THEN RoundHalfEven(2 * std.n * pred - Width2n(std), 2 * std.n)
    ELSE pred - ((Width2n(std) - std.n) \div (2 * std.n) + 1)

\* round(max(0, pred - 1.96 * std), 2), pred in hundredths: to the nearest
\* hundredth, which for an irrational width is pred less the width rounded up
\* from its half
ConfidenceLower(pred, std) ==
    IF WidthExact(std)
    THEN RoundHalfEven(Max2(0, 2 * std.n * pred - Width2n(std)), 2 * std.n)
    ELSE IF 2 * std.n * pred <= Width2n(std) THEN 0
    ELSE pred - ((Width2n(std) - std.n) \div (2 * std.n) + 1)

\* round(pred + 1.96 * std, 2)
ConfidenceUpper(pred, std) ==
    IF WidthExact(std)
    THEN RoundHalfEven(2 * std.n * pred + Width2n(std), 2 * std.n)
    ELSE pred + (Width2n(std) + std.n) \div (2 * std.n)

\* _make_predictions: the loop for i in range(1, horizon_days + 1), from step
\* Len(acc) + 1 on; votes[i] is the forest's answer at step i
RECURSIVE PredictFrom(_, _, _, _, _, _)
PredictFrom(recent, lastDate, targets, h, votes, acc) ==
    IF Len(acc) >= h THEN acc
    ELSE LET i == Len(acc) + 1
             predQty == [k \in 1..Len(acc) |-> acc[k].pred]
             quantities == StepQuantities(recent, predQty)
             std == RollingStd30(quantities)
             pred == ClampPrediction(ModelPredict(targets, votes[i]))
             point == [date |-> lastDate + i,
                       pred |-> pred,
                       lower |-> ConfidenceLower(pred, std),
                       upper |-> ConfidenceUpper(pred, std)]
         IN  PredictFrom(recent, lastDate, targets, h, votes, Append(acc, point))

MakePredictions(df, h, votes) ==
    LET daily == DailyQty(df)
        recent == [i \in 1..Len(LastK(daily, TailLen)) |-> 100 * LastK(daily, TailLen)[i]]
    IN  PredictFrom(recent, LastDate(df), TrainTargets(daily), h, votes, <<>>)

----------------------------------------------------------------------------
(* ForecastService.generate_forecast *)

\* a lookup that never misses
FindProductAlways(p) == TRUE

\* db.query(Product).filter(Product.id == product_id).first()
FindProduct(p) == p \in Products

\* if df.empty or len(df) < 7
UseFallback(df) == df = <<>> \/ Len(df) < MinHistory

\* avg_qty, as the fraction num/den: the mean of the sale rows' quantities, 1.0
\* when there are none
AvgQtyNum(df) == IF df = <<>> THEN 1 ELSE SumSeq(Quantities(df))
AvgQtyDen(df) == IF df = <<>> THEN 1 ELSE Len(df)

\* the insufficient-data branch: one point per day after today
FallbackPredictions(df, h) ==
    LET num == AvgQtyNum(df)
        den == AvgQtyDen(df)
    IN  [i \in 1..h |->
            [date |-> today + i,
             pred |-> RoundHalfEven(100 * num, den),
             lower |-> RoundHalfEven(Max2(0, 100 * num), 2 * den),
             upper |-> RoundHalfEven(300 * num, 2 * den)]]

ForecastRow(u, p, pt) ==
    [user |-> u, product |-> p, date |-> pt.date,
     pred |-> pt.pred, lower |-> pt.lower, upper |-> pt.upper]

\* the rows of (u, p) in a forecasts table
ForecastsOf(table, u, p) == table[<<u, p>>]

ForecastRows(u, p, predictions) ==
    [i \in 1..Len(predictions) |-> ForecastRow(u, p, predictions[i])]

\* the same without the DELETE of lines 260-263
SaveForecastsNoDelete(table, u, p, predictions) ==
    [table EXCEPT ![<<u, p>>] = @ \o ForecastRows(u, p, predictions)]

\* the same with the DELETE filtered on product_id alone
SaveForecastsAnyTenant(table, u, p, predictions) ==
    LET deleted == [k \in DOMAIN table |-> IF k[2] = p THEN <<>> ELSE table[k]]
    IN  [deleted EXCEPT ![<<u, p>>] = @ \o ForecastRows(u, p, predictions)]

\* _save_forecasts: delete the rows of (product_id, self.user_id), add one row
\* per prediction, commit
SaveForecasts(table, u, p, predictions) ==
    LET deleted == [table EXCEPT ![<<u, p>>] = <<>>]
    IN  [deleted EXCEPT ![<<u, p>>] = @ \o ForecastRows(u, p, predictions)]

\* What is recorded of a call: who called what, the branch taken, how it ended
\* (ok, not_found or error), whether table forecasts changed, and the number of
\* rows (u, p) held before the call
CallRec(op, u, p, h, path, outcome, before, after) ==
    [op |-> op, user |-> u, product |-> p, horizon |-> h, path |-> path,
     outcome |-> outcome, wrote |-> before # after,
     prior |-> Len(ForecastsOf(before, u, p))]

\* the peak taken as the last of the points that share the maximum
PeakIndexLast(predictions) ==
    CHOOSE i \in 1..Len(predictions) :
        /\ \A j \in 1..Len(predictions) : predictions[j].pred <= predictions[i].pred
        /\ \A j \in (i + 1)..Len(predictions) : predictions[j].pred < predictions[i].pred

\* line 242, max(predictions, key=...): the first of the points that share the
\* maximum
PeakIndex(predictions) ==
    CHOOSE i \in 1..Len(predictions) :
        /\ \A j \in 1..Len(predictions) : predictions[j].pred <= predictions[i].pred
        /\ \A j \in 1..(i - 1) : predictions[j].pred < predictions[i].pred

NoSummary ==
    [total_predicted_demand |-> 0, avg_daily_demand |-> 0, peak_date |-> 0,
     peak_quantity |-> 0]

\* lines 240-253: the summary of the response (none when line 242 raises on an
\* empty list)
Summary(predictions) ==
    LET total == SumSeq([i \in 1..Len(predictions) |-> predictions[i].pred])
    IN  IF predictions = <<>> THEN NoSummary
        ELSE [total_predicted_demand |-> total,
              avg_daily_demand |-> RoundHalfEven(total, Len(predictions)),
              peak_date |-> predictions[PeakIndex(predictions)].date,
              peak_quantity |-> predictions[PeakIndex(predictions)].pred]

\* the record of a call, with the summary of its response
WithSummary(rec, predictions) ==
    [op |-> rec.op, user |-> rec.user, product |-> rec.product, horizon |-> rec.horizon,
     path |-> rec.path, outcome |-> rec.outcome, wrote |-> rec.wrote, prior |-> rec.prior,
     summary |-> Summary(predictions)]

\* generate_forecast(self, product_id, horizon_days) with self.user_id = u: the
\* body of lines 198-254, every helper it calls included
GenerateForecast(u, p, h) ==
    LET df == SalesOf(u, p)
    IN  /\ UNCHANGED <<sales, today, fcVars>>
        /\ IF ~FindProduct(p)
           THEN \* raise ValueError("Product ... not found")
                /\ UNCHANGED forecasts
                /\ call' = CallRec("service", u, p, h, "none", "not_found",
                                   forecasts, forecasts')
           ELSE IF UseFallback(df)
           THEN /\ forecasts' = SaveForecasts(forecasts, u, p, FallbackPredictions(df, h))
                /\ call' = WithSummary(CallRec("service", u, p, h, "fallback",
                                   \* max() of an empty list raises ValueError
                                   IF h >= 1 THEN "ok" ELSE "error",
                                   forecasts, forecasts'),
                                   FallbackPredictions(df, h))
           ELSE IF NTrain(Len(DailyQty(df))) = 0
           THEN \* train_test_split raises ValueError: nothing was written
                /\ UNCHANGED forecasts
                /\ call' = CallRec("service", u, p, h, "model", "error",
                                   forecasts, forecasts')
           ELSE \E votes \in [1..h -> Votes] :
                /\ forecasts' = SaveForecasts(forecasts, u, p, MakePredictions(df, h, votes))
                /\ call' = WithSummary(CallRec("service", u, p, h, "model",
                                   IF h >= 1 THEN "ok" ELSE "error",
                                   forecasts, forecasts'),
                                   MakePredictions(df, h, votes))

----------------------------------------------------------------------------
(* routers/forecasts.py *)

\* the methods of class ForecastService: its body ends at line 90, and the def
\* statements from line 93 on are not part of it
ForecastServiceMethods == {"__init__", "_get_sales_data", "_create_features"}

\* POST /forecasts/generate/{product_id} as user u
RouterGenerateForecast(u, p, h) ==
    /\ UNCHANGED <<sales, today, fcVars>>
    /\ IF ~(p \in Products /\ Owner(p) = u)
       THEN \* HTTPException(status_code=404)
            /\ UNCHANGED forecasts
            /\ call' = CallRec("router", u, p, h, "none", "not_found", forecasts, forecasts')
       ELSE IF "generate_forecast" \notin ForecastServiceMethods
       THEN \* service.generate_forecast: AttributeError
            /\ UNCHANGED forecasts
            /\ call' = CallRec("router", u, p, h, "none", "error", forecasts, forecasts')
       ELSE GenerateForecast(u, p, h)

----------------------------------------------------------------------------
(* The sales histories the model starts from *)

\* n sale rows of product 1 sold by user 1: perDay rows on each selling day,
\* selling days gap days apart, quantities q1, q2, q1, ...
History(n, perDay, gap, q1, q2) ==
    [k \in 1..n |->
        [user |-> 1, product |-> 1,
         d |-> FirstDay + gap * ((k - 1) \div perDay),
         q |-> IF k % 2 = 1 THEN q1 ELSE q2]]

Histories ==
    {History(n, perDay, gap, q1, q2) :
        n \in 0..MaxSales, perDay \in PerDayChoices \cup {MaxSales + 1},
        gap \in GapChoices, q1 \in 0..MaxQty, q2 \in 0..MaxQty}

NoPg == [rows |-> {}, nextId |-> 1, nextGen |-> 1, h |-> 0, log |-> <<>>]
NoTx == <<>>
NoObs == [rows |-> {}, during |-> {}]
NoCatalog == [safety |-> 0, products |-> <<>>]
NoAlerts == <<>>

NoCall ==
    [op |-> "none", user |-> 0, product |-> 0, horizon |-> 0, path |-> "none",
     outcome |-> "none", wrote |-> FALSE, prior |-> 0]

Init ==
    /\ sales \in Histories
    /\ forecasts = [k \in Users \X ProductIds |-> <<>>]
    /\ today \in {(IF sales = <<>> THEN FirstDay ELSE LastDate(sales)) + idle :
                    idle \in IdleChoices}
    /\ call = NoCall
    /\ pg = NoPg /\ tx = NoTx /\ obs = NoObs
    /\ catalog = NoCatalog /\ alerts = NoAlerts

\* the service's operations, called as the bodies of their def statements
Next ==
    \E u \in Users, p \in ProductIds, h \in 0..MaxHorizon : GenerateForecast(u, p, h)

Spec == Init /\ [][Next]_vars

\* the HTTP handlers, as the application serves them
NextRouter ==
    \E u \in Users, p \in ProductIds, h \in 0..MaxHorizon : RouterGenerateForecast(u, p, h)

SpecRouter == Init /\ [][NextRouter]_vars

----------------------------------------------------------------------------
(* Claims on generate_forecast *)

\* the key of the last call, and the rows it holds now
CallRows == ForecastsOf(forecasts, call.user, call.product)
CallDf == SalesOf(call.user, call.product)
ServiceOk == call.op = "service" /\ call.outcome = "ok"

DistinctDates(rows) ==
    \A i, j \in 1..Len(rows) : i # j => rows[i].date # rows[j].date

\* C1: after every successful generate_forecast(product, h), h >= 1, whatever
\* calls came before it, the stored set of that product and tenant has exactly
\* h rows and no two of them share a forecast date
C1_IdempotentRegeneration ==
    ServiceOk => Len(CallRows) = call.horizon /\ DistinctDates(CallRows)

\* a successful call that replaced a stored set of two rows
C1_Witness == ServiceOk /\ call.prior >= 2 /\ Len(CallRows) >= 1

\* the number of historical days: rows of the daily feature table
HistoryDays(df) == Len(DailyQty(df))

\* C5: with fewer than 7 days of history, a successful call stores horizon_days
\* points, each with predicted_quantity the mean of the observed quantities
\* (1.0 without history), confidence_lower 0.5 x and confidence_upper 1.5 x
\* the mean, to the two decimals a stored point carries
C5_FallbackValues ==
    (ServiceOk /\ HistoryDays(CallDf) < MinHistory) =>
        /\ Len(CallRows) = call.horizon
        /\ \A i \in 1..Len(CallRows) :
            /\ CallRows[i].pred = RoundHalfEven(100 * AvgQtyNum(CallDf), AvgQtyDen(CallDf))
            /\ CallRows[i].lower = RoundHalfEven(100 * AvgQtyNum(CallDf), 2 * AvgQtyDen(CallDf))
            /\ CallRows[i].upper = RoundHalfEven(300 * AvgQtyNum(CallDf), 2 * AvgQtyDen(CallDf))

\* C6: the constant-mean fallback is taken exactly when the daily feature
\* table has fewer than 7 rows, the model is trained exactly when it has 7 or
\* more
C6_PathSelection ==
    (call.op = "service" /\ call.path \in {"fallback", "model"}) =>
        (call.path = "fallback" <=> HistoryDays(CallDf) < MinHistory)

\* C7: every stored forecast point has predicted_quantity >= 0,
\* confidence_lower >= 0 and confidence_upper >= confidence_lower
C7_PointInvariant ==
    \A k \in DOMAIN forecasts : \A i \in 1..Len(forecasts[k]) :
        /\ forecasts[k][i].pred >= 0
        /\ forecasts[k][i].lower >= 0
        /\ forecasts[k][i].upper >= forecasts[k][i].lower

\* the model branch stored a point whose lower bound was cut off at 0
C7_Witness ==
    /\ ServiceOk /\ call.path = "model"
    /\ \E i \in 1..Len(CallRows) :
        /\ CallRows[i].lower = 0
        /\ CallRows[i].upper > CallRows[i].pred + 50

\* C8: for an existing product of the caller, the router's call
\* service.generate_forecast(product_id, horizon_days) returns a forecast
C8_OnlyNotFoundIsFatal ==
    (call.product \in Products /\ Owner(call.product) = call.user
        /\ call.op = "router")
        => call.outcome = "ok"

\* C9: generate_forecast for a product id without a product row ends in the
\* not-found error and leaves table forecasts as it was
C9_UnknownProduct ==
    (call.op = "service" /\ call.product \notin Products) =>
        call.outcome = "not_found" /\ ~call.wrote

\* an unknown product id was asked for while forecasts were stored
C9_Witness ==
    /\ call.op = "service" /\ call.product \notin Products
    /\ \E k \in DOMAIN forecasts : forecasts[k] # <<>>

----------------------------------------------------------------------------
(* Concurrent requests on table forecasts. The database is PostgreSQL        *)
(* (config.py, database_url) at its default isolation level READ COMMITTED:  *)
(* a statement sees the rows committed before it began; DELETE locks the     *)
(* rows it removes and waits for a row another open transaction has removed, *)
(* then skips it if that transaction committed; rows a transaction inserted  *)
(* are seen by the others once it commits. The Session sends the DELETE of   *)
(* query.delete() at once and the INSERTs of db.add() when it flushes, in    *)
(* db.commit().                                                              *)

Writers == {1, 2}
ConcUser == Owner(MinOf(Products))
ConcProduct == MinOf(Products)

IdleTx ==
    [pc |-> "idle", gen |-> 0, pos |-> 0, snap |-> {}, del |-> {}, ins |-> {}, runs |-> 0]

\* the table rows of one generation: predictions[i] under id firstId + i - 1
PgRows(firstId, g, predictions) ==
    {[id |-> firstId + i - 1, gen |-> g, date |-> predictions[i].date,
      pred |-> predictions[i].pred] : i \in 1..Len(predictions)}

RowIds(rows) == {r.id : r \in rows}

\* the rows a statement of another session sees
VisibleRows(committed, txs) == committed

\* the predictions generate_forecast computes in these runs (no sale rows: the
\* insufficient-data branch)
ConcPredictions == FallbackPredictions(SalesOf(ConcUser, ConcProduct), pg.h)

\* _save_forecasts, line 260: the DELETE statement begins and takes its snapshot
TxBeginDelete(w) ==
    /\ tx[w].pc = "idle" /\ tx[w].runs < MaxRuns
    /\ tx' = [tx EXCEPT ![w].pc = "deleting", ![w].gen = pg.nextGen,
                        ![w].snap = RowIds(VisibleRows(pg.rows, tx))]
    /\ pg' = [pg EXCEPT !.nextGen = @ + 1]
    /\ UNCHANGED <<seqVars, obs>>

\* a session in autocommit mode: the DELETE is committed on its own
TxFinishDeleteAutocommit(w) ==
    /\ tx[w].pc = "deleting"
    /\ tx' = [tx EXCEPT ![w].pc = "deleted"]
    /\ pg' = [pg EXCEPT !.rows = {r \in @ : r.id \notin tx[w].snap}]
    /\ UNCHANGED <<seqVars, obs>>

\* line 263: the DELETE statement ends, once no row of its snapshot is locked
\* by another open transaction; it removes the rows that still exist
TxFinishDelete(w) ==
    /\ tx[w].pc = "deleting"
    /\ \A v \in Writers \ {w} : tx[v].del \cap tx[w].snap = {}
    /\ tx' = [tx EXCEPT ![w].pc = "deleted",
                        ![w].del = tx[w].snap \cap RowIds(pg.rows)]
    /\ UNCHANGED <<seqVars, pg, obs>>

\* lines 266-276 and the flush of line 278: one INSERT per prediction
TxFlush(w) ==
    /\ tx[w].pc = "deleted"
    /\ tx' = [tx EXCEPT ![w].pc = "flushed",
                        ![w].ins = PgRows(pg.nextId, tx[w].gen, ConcPredictions)]
    /\ pg' = [pg EXCEPT !.nextId = @ + Len(ConcPredictions)]
    /\ UNCHANGED <<seqVars, obs>>

\* line 278: COMMIT
TxCommit(w) ==
    /\ tx[w].pc = "flushed"
    /\ pg' = [pg EXCEPT !.rows = {r \in @ : r.id \notin tx[w].del} \cup tx[w].ins,
                        !.log = @ @@ (tx[w].gen :> Cardinality(tx[w].ins))]
    /\ tx' = [tx EXCEPT ![w] = [IdleTx EXCEPT !.runs = tx[w].runs + 1]]
    /\ UNCHANGED <<seqVars, obs>>

\* get_forecast, lines 60-64: one SELECT of the rows dated today or later;
\* during records where the writers stood when it ran
ReadForecast ==
    /\ obs' = [rows |-> {[gen |-> r.gen, date |-> r.date] :
                            r \in {v \in VisibleRows(pg.rows, tx) : v.date >= today}},
               during |-> {tx[w].pc : w \in Writers}]
    /\ UNCHANGED <<seqVars, pg, tx>>

\* a stored set of pg.h rows, generation 0, and no request under way
InitConc ==
    /\ sales = <<>>
    /\ forecasts = [k \in Users \X ProductIds |-> <<>>]
    /\ today = FirstDay
    /\ call = NoCall
    /\ \E h \in 1..MaxHorizon :
        pg = [rows |-> {[id |-> i, gen |-> 0, date |-> today + i, pred |-> 100] : i \in 1..h},
              nextId |-> h + 1, nextGen |-> 1, h |-> h, log |-> (0 :> h)]
    /\ tx = [w \in Writers |-> IdleTx]
    /\ obs = NoObs
    /\ catalog = NoCatalog /\ alerts = NoAlerts

\* one client regenerating, one reading
NextReader ==
    \/ TxBeginDelete(1)
    \/ TxFinishDelete(1)
    \/ TxFlush(1)
    \/ TxCommit(1)
    \/ ReadForecast

SpecReader == InitConc /\ [][NextReader]_vars

\* two clients regenerating, one reading
NextWriters ==
    \/ \E w \in Writers : TxBeginDelete(w)
    \/ \E w \in Writers : TxFinishDelete(w)
    \/ \E w \in Writers : TxFlush(w)
    \/ \E w \in Writers : TxCommit(w)
    \/ ReadForecast

SpecWriters == InitConc /\ [][NextWriters]_vars

\* the rows of generation g, as a reader is answered them
GenerationSet(g) == {[gen |-> g, date |-> today + i] : i \in 1..pg.log[g]}

AllWritersDone == \A w \in Writers : tx[w].pc = "idle" /\ tx[w].runs >= 1

\* C3: after two concurrent generate_forecast calls for the same product and
\* tenant (horizon h) have both finished, the stored set has exactly h rows
\* and no two rows share a forecast date
C3_SerializedRegeneration ==
    AllWritersDone =>
        /\ Cardinality(pg.rows) = pg.h
        /\ \A r1, r2 \in pg.rows : r1.id # r2.id => r1.date # r2.date

----------------------------------------------------------------------------
(* AlertService *)

DefaultLeadTime == 7        \* lead_time = 7  # Default
DefaultMinOrder == 1        \* min_order = 1
WindowDays == 30            \* timedelta(days=30), total_qty / 30
BufferDays == 30            \* target_days = lead_time + safety_stock_days + 30
OverstockFactor == 4        \* product.reorder_point * 4
NoDemandDays == 999         \* days_of_stock when avg_daily_demand is 0

\* table suppliers
Suppliers ==
    (1 :> [lead_time_days |-> 3, minimum_order_quantity |-> 50]) @@
    (2 :> [lead_time_days |-> 14, minimum_order_quantity |-> 1]) @@
    (3 :> [lead_time_days |-> 992, minimum_order_quantity |-> 1])

\* lines 46-52: the supplier's lead time, 7 for a product without supplier
\* (supplier_id 0 stands for None)
LeadTime(product) ==
    IF product.supplier_id # 0 /\ product.supplier_id \in DOMAIN Suppliers
    THEN Suppliers[product.supplier_id].lead_time_days
    ELSE DefaultLeadTime

\* lines 159-165
MinOrder(product) ==
    IF product.supplier_id # 0 /\ product.supplier_id \in DOMAIN Suppliers
    THEN Suppliers[product.supplier_id].minimum_order_quantity
    ELSE DefaultMinOrder

\* Python None (SQL NULL), held as -1: no number stored in a profile of the
\* model is negative
None == -1

\* inventory.quantity_on_hand - inventory.quantity_reserved
Available(product) == product.quantity_on_hand - product.quantity_reserved

RECURSIVE SumSoldSince(_, _, _, _, _)
SumSoldSince(rows, u, p, since, i) ==
    IF i > Len(rows) THEN 0
    ELSE (IF rows[i].user = u /\ rows[i].product = p /\ rows[i].d >= since
          THEN rows[i].q ELSE 0) + SumSoldSince(rows, u, p, since, i + 1)

\* _get_avg_daily_demand: total_qty, the quantity sold by the tenant since 30
\* days ago; avg_daily_demand is total_qty / 30
TotalQty(u, p) == SumSoldSince(sales, u, p, today - WindowDays, 1)

\* days_of_stock <= x, where days_of_stock = available / avg_daily_demand if
\* avg_daily_demand > 0 else 999
DaysOfStockAtMost(product, u, x) ==
    LET total == TotalQty(u, product.id)
    IN  IF total > 0 THEN WindowDays * Available(product) <= x * total
        ELSE NoDemandDays <= x

\* the same without the raise to the minimum order quantity
CalculateReorderQtyNoMinimum(product, u, safety) ==
    LET targetDays == LeadTime(product) + safety + BufferDays
        num == TotalQty(u, product.id) * targetDays
               - WindowDays * (Available(product) + product.quantity_on_order)
    IN  IF num <= 0 THEN 0 ELSE num \div WindowDays

\* _calculate_reorder_qty: int() of max(0, avg_daily * target_days - available
\* - quantity_on_order), raised to min_order when strictly between 0 and it;
\* the amount is num / 30
CalculateReorderQty(product, u, safety) ==
    LET targetDays == LeadTime(product) + safety + BufferDays
        num == TotalQty(u, product.id) * targetDays
               - WindowDays * (Available(product) + product.quantity_on_order)
    IN  IF num <= 0 THEN 0
        ELSE IF num < WindowDays * MinOrder(product) THEN MinOrder(product)
        ELSE num \div WindowDays

\* lines 55-59: forecast_demand, the sum of predicted_quantity (hundredths)
\* over the forecast rows of the product, of any tenant, dated from today to
\* before today + lead_time + safety_stock_days
ForecastDemand(product, safety) ==
    LET keys == {k \in DOMAIN forecasts : k[2] = product.id}
        inWindow(r) == r.date >= today /\ r.date < today + LeadTime(product) + safety
        RECURSIVE SumKeys(_)
        SumKeys(K) ==
            IF K = {} THEN 0
            ELSE LET k == CHOOSE x \in K : TRUE
                     rows == SelectSeq(forecasts[k], inWindow)
                 IN  SumSeq([i \in 1..Len(rows) |-> rows[i].pred]) + SumKeys(K \ {k})
    IN  SumKeys(keys)

\* a reorder quantity that covers the forecast demand
ReorderQtyFromForecast(product, u, safety, forecast_demand) ==
    LET need == forecast_demand \div 100 - Available(product) - product.quantity_on_order
    IN  IF need <= 0 THEN 0 ELSE need

\* the call self._calculate_reorder_qty(product, inventory, forecast_demand,
\* lead_time): the body of _calculate_reorder_qty never reads forecast_demand
ReorderQty(product, u, safety, forecast_demand) ==
    CalculateReorderQty(product, u, safety)

NoDecision == [alert_type |-> "none", priority |-> "none", recommended_quantity |-> <<>>]

\* the chain with the reorder-point test ahead of the days-of-stock test
AlertDecisionReorderFirst(product, u, safety) ==
    LET lead == LeadTime(product)
        qty == <<CalculateReorderQty(product, u, safety)>>
    IN  IF Available(product) <= 0
        THEN [alert_type |-> "stockout_warning", priority |-> "critical",
              recommended_quantity |-> qty]
        ELSE IF Available(product) <= product.reorder_point
        THEN [alert_type |-> "low_stock", priority |-> "medium",
              recommended_quantity |-> qty]
        ELSE IF DaysOfStockAtMost(product, u, lead + safety)
        THEN [alert_type |-> "stockout_warning",
              priority |-> IF DaysOfStockAtMost(product, u, lead)
                           THEN "critical" ELSE "high",
              recommended_quantity |-> qty]
        ELSE IF Available(product) > product.reorder_point * OverstockFactor
        THEN [alert_type |-> "overstock", priority |-> "low",
              recommended_quantity |-> <<>>]
        ELSE NoDecision

\* the chain with the overstock test at or above 4 x reorder_point
AlertDecisionOverstockAtBoundary(product, u, safety) ==
    LET lead == LeadTime(product)
        qty == <<CalculateReorderQty(product, u, safety)>>
    IN  IF Available(product) <= 0
        THEN [alert_type |-> "stockout_warning", priority |-> "critical",
              recommended_quantity |-> qty]
        ELSE IF DaysOfStockAtMost(product, u, lead + safety)
        THEN [alert_type |-> "stockout_warning",
              priority |-> IF DaysOfStockAtMost(product, u, lead)
                           THEN "critical" ELSE "high",
              recommended_quantity |-> qty]
        ELSE IF Available(product) <= product.reorder_point
        THEN [alert_type |-> "low_stock", priority |-> "medium",
              recommended_quantity |-> qty]
        ELSE IF Available(product) >= product.reorder_point * OverstockFactor
        THEN [alert_type |-> "overstock", priority |-> "low",
              recommended_quantity |-> <<>>]
        ELSE NoDecision

\* lines 75-130: the if / elif chain; recommended_quantity is <<>> for None
AlertDecision(product, u, safety) ==
    LET lead == LeadTime(product)
        qty == <<ReorderQty(product, u, safety, ForecastDemand(product, safety))>>
    IN  IF Available(product) <= 0
        THEN [alert_type |-> "stockout_warning", priority |-> "critical",
              recommended_quantity |-> qty]
        ELSE IF DaysOfStockAtMost(product, u, lead + safety)
        THEN [alert_type |-> "stockout_warning",
              priority |-> IF DaysOfStockAtMost(product, u, lead)
                           THEN "critical" ELSE "high",
              recommended_quantity |-> qty]
        ELSE IF Available(product) <= product.reorder_point
        THEN [alert_type |-> "low_stock", priority |-> "medium",
              recommended_quantity |-> qty]
        ELSE IF Available(product) > product.reorder_point * OverstockFactor
        THEN [alert_type |-> "overstock", priority |-> "low",
              recommended_quantity |-> <<>>]
        ELSE NoDecision

\* _create_alert: the row added; created_at (server_default now()) is held as
\* the number of the request that created the row
AlertRow(u, p, decision, at) ==
    [user |-> u, product |-> p, alert_type |-> decision.alert_type,
     priority |-> decision.priority,
     recommended_quantity |-> decision.recommended_quantity,
     is_read |-> FALSE, is_resolved |-> FALSE, created_at |-> at]

\* a run that deletes nothing
ClearNothing(rows, u) == rows

\* lines 69-73: delete the unresolved alerts of the product and the tenant
ClearUnresolved(rows, u) ==
    SelectSeq(rows, LAMBDA a : ~(a.user = u /\ a.is_resolved = FALSE))

\* one turn of the loop of generate_alerts, on the rows of the product
EvaluateProduct(rows, product, u, safety, at) ==
    LET decision == AlertDecision(product, u, safety)
        cleared == ClearUnresolved(rows, u)
    IN  IF decision = NoDecision THEN cleared
        ELSE Append(cleared, AlertRow(u, product.id, decision, at))

\* lines 36-40: the tenant's products that have an inventory row
ProductsOf(u) == {p \in DOMAIN catalog.products : catalog.products[p].user = u}

\* results: the number of alerts created
CreatedCount(u) ==
    Cardinality({p \in ProductsOf(u) :
        AlertDecision(catalog.products[p], u, catalog.safety) # NoDecision})

\* the number of generate_alerts runs so far
Clock == IF call.op \in {"alerts", "resolve", "update"} THEN call.at ELSE 0

\* the product's evaluation raises TypeError: with reorder_point None, the
\* comparison of line 105 is reached (no earlier rule matched) and fails
EvaluationRaises(product, u, safety) ==
    /\ product.reorder_point = None
    /\ Available(product) > 0
    /\ ~DaysOfStockAtMost(product, u, LeadTime(product) + safety)

\* What is recorded of a request on table alerts: prior is the table before it
AlertCall(op, u, outcome, created) ==
    [op |-> op, user |-> u, outcome |-> outcome, created |-> created,
     wrote |-> alerts' # alerts, at |-> Clock + 1, prior |-> alerts]

\* generate_alerts(self) with self.user_id = u: every product of the tenant is
\* evaluated, then the session commits
GenerateAlerts(u) ==
    /\ Clock < MaxRuns
    /\ IF \E p \in ProductsOf(u) : EvaluationRaises(catalog.products[p], u, catalog.safety)
       THEN \* the exception leaves generate_alerts before line 132: the
            \* session never commits
            /\ UNCHANGED alerts
            /\ call' = AlertCall("alerts", u, "error", 0)
       ELSE /\ alerts' = [p \in DOMAIN alerts |->
                            IF p \in ProductsOf(u)
                            THEN EvaluateProduct(alerts[p], catalog.products[p], u,
                                                 catalog.safety, Clock + 1)
                            ELSE alerts[p]]
            /\ call' = AlertCall("alerts", u, "ok", CreatedCount(u))
    /\ UNCHANGED <<sales, forecasts, today, catalog, pgVars>>

\* routers/alerts.py, resolve_alert: the alert is marked resolved
ResolveAlert(u, p, i) ==
    /\ i \in 1..Len(alerts[p])
    /\ alerts[p][i].user = u
    /\ ~alerts[p][i].is_resolved
    /\ alerts' = [alerts EXCEPT ![p][i].is_resolved = TRUE]
    /\ call' = [AlertCall("resolve", u, "ok", 0) EXCEPT !.at = Clock]
    /\ UNCHANGED <<sales, forecasts, today, catalog, pgVars>>

\* routers/alerts.py, update_alert: is_read and is_resolved are set when the
\* request gives them ("keep" stands for a field left out of the request)
UpdateAlert(u, p, i, read, resolved) ==
    /\ i \in 1..Len(alerts[p])
    /\ alerts[p][i].user = u
    /\ alerts' = [alerts EXCEPT
                    ![p][i].is_read = IF read = "keep" THEN @ ELSE read = "true",
                    ![p][i].is_resolved = IF resolved = "keep" THEN @ ELSE resolved = "true"]
    /\ call' = [AlertCall("update", u, "ok", 0) EXCEPT !.at = Clock]
    /\ UNCHANGED <<sales, forecasts, today, catalog, pgVars>>

----------------------------------------------------------------------------
(* The catalogs the alert engine starts from *)

AlertUser == 1
OnHandChoices == {0, 10, 35, 40, 41, 50, 60}
ReservedChoices == {0, 5}
OnOrderChoices == {0, 10}
ReorderPointChoices == {0, 10}
SupplierChoices == {0, 1, 2, 3}
SoldChoices == {0, 30, 45, 150} \* quantity sold today
SafetyChoices == {5, 7}         \* settings.safety_stock_days

ProductRecord(p, supplier, reorder, onHand, reserved, onOrder) ==
    [id |-> p, user |-> AlertUser, supplier_id |-> supplier, reorder_point |-> reorder,
     quantity_on_hand |-> onHand, quantity_reserved |-> reserved,
     quantity_on_order |-> onOrder]

\* product 1 takes every profile; product 2 is a fixed slow seller
Catalogs ==
    {[safety |-> s,
      products |-> (1 :> ProductRecord(1, sup, rp, oh, rs, oo)) @@
                   (2 :> ProductRecord(2, 0, 10, oh2, 0, 0))] :
        s \in SafetyChoices, sup \in SupplierChoices, rp \in ReorderPointChoices,
        oh \in OnHandChoices, rs \in ReservedChoices, oo \in OnOrderChoices,
        oh2 \in {10, 40}}

SaleRows(sold) ==
    IF sold = 0 THEN <<>>
    ELSE <<[user |-> AlertUser, product |-> 1, d |-> FirstDay + WindowDays, q |-> sold]>>

InitAlerts ==
    /\ catalog \in Catalogs
    /\ \E sold \in SoldChoices : sales = SaleRows(sold)
    /\ today = FirstDay + WindowDays
    /\ alerts = [p \in {1, 2} |-> <<>>]
    /\ forecasts = [k \in Users \X ProductIds |-> <<>>]
    /\ call = NoCall
    /\ pg = NoPg /\ tx = NoTx /\ obs = NoObs

ResolvedCount(p) == Cardinality({i \in 1..Len(alerts[p]) : alerts[p][i].is_resolved})

NextAlerts ==
    \/ \E u \in Users : GenerateAlerts(u)
    \/ \E u \in Users, p \in DOMAIN alerts : \E i \in 1..Len(alerts[p]) :
            ResolvedCount(p) < MaxResolved /\ ResolveAlert(u, p, i)

SpecAlerts == InitAlerts /\ [][NextAlerts]_vars

----------------------------------------------------------------------------
(* Claims on generate_alerts *)

\* the unresolved alerts of product p
Unresolved(p) == SelectSeq(alerts[p], LAMBDA a : ~a.is_resolved)

AlertRan == call.op = "alerts" /\ call.user = AlertUser

\* the rules of the decision procedure, for product p
Rule1(p) == Available(catalog.products[p]) <= 0
Rule2(p) ==
    DaysOfStockAtMost(catalog.products[p], AlertUser,
                      LeadTime(catalog.products[p]) + catalog.safety)
Rule2Critical(p) ==
    DaysOfStockAtMost(catalog.products[p], AlertUser, LeadTime(catalog.products[p]))
Rule3(p) == Available(catalog.products[p]) <= catalog.products[p].reorder_point
Rule4(p) == Available(catalog.products[p]) > 4 * catalog.products[p].reorder_point

IsAlert(p, type, priority) ==
    /\ Len(Unresolved(p)) = 1
    /\ Unresolved(p)[1].alert_type = type
    /\ Unresolved(p)[1].priority = priority

\* C10: after a run, the alert of every evaluated product is the outcome of
\* the first rule that holds: (1) stockout_warning / critical, (2)
\* stockout_warning, critical if days_of_stock <= lead_time else high, (3)
\* low_stock / medium, (4) overstock / low, (5) no alert
C10_FirstMatch ==
    AlertRan => \A p \in ProductsOf(AlertUser) :
        IF Rule1(p) THEN IsAlert(p, "stockout_warning", "critical")
        ELSE IF Rule2(p)
        THEN IsAlert(p, "stockout_warning", IF Rule2Critical(p) THEN "critical" ELSE "high")
        ELSE IF Rule3(p) THEN IsAlert(p, "low_stock", "medium")
        ELSE IF Rule4(p) THEN IsAlert(p, "overstock", "low")
        ELSE Unresolved(p) = <<>>

\* the example: reorder_point 10, safety 5, no supplier (lead 7), available
\* 50, avg demand 5 (150 sold in the window): stockout_warning, high
C10_Witness ==
    /\ AlertRan
    /\ catalog.safety = 5
    /\ catalog.products[1].reorder_point = 10
    /\ catalog.products[1].supplier_id = 0
    /\ Available(catalog.products[1]) = 50
    /\ TotalQty(AlertUser, 1) = 150
    /\ IsAlert(1, "stockout_warning", "high")

----------------------------------------------------------------------------
(* Concurrent runs of generate_alerts on table alerts, under the same        *)
(* PostgreSQL rules as above: in each turn of the loop the DELETE of the     *)
(* product's unresolved alerts is sent at once, the new alert is inserted    *)
(* when the session flushes, and the one COMMIT follows the loop.            *)

\* the tenant's products in the order the loop takes them
ProductSeq == <<1, 2>>

\* the committed unresolved alerts of product p and tenant u: what the DELETE
\* of lines 69-73 matches
UnresolvedIds(rows, u, p) ==
    {r.id : r \in {v \in rows : v.product = p /\ v.user = u /\ ~v.is_resolved}}

\* lines 69-73 of turn pos of the loop: the DELETE statement begins
AlertTxBeginDelete(w) ==
    /\ \/ tx[w].pc = "idle" /\ tx[w].runs < MaxRuns
       \/ tx[w].pc = "next"
    /\ LET pos == tx[w].pos + 1
       IN  tx' = [tx EXCEPT ![w].pc = "deleting", ![w].pos = pos,
                            ![w].gen = IF tx[w].pc = "idle" THEN pg.nextGen ELSE @,
                            ![w].snap = UnresolvedIds(VisibleRows(pg.rows, tx),
                                                      AlertUser, ProductSeq[pos])]
    /\ pg' = [pg EXCEPT !.nextGen = IF tx[w].pc = "idle" THEN @ + 1 ELSE @]
    /\ UNCHANGED <<seqVars, obs>>

\* the DELETE statement ends, once no row of its snapshot is locked by
\* another open transaction; it removes the rows that still exist
AlertTxFinishDelete(w) ==
    /\ tx[w].pc = "deleting"
    /\ \A v \in Writers \ {w} : tx[v].del \cap tx[w].snap = {}
    /\ tx' = [tx EXCEPT ![w].pc = "deleted",
                        ![w].del = @ \cup (tx[w].snap \cap RowIds(pg.rows))]
    /\ UNCHANGED <<seqVars, pg, obs>>

\* lines 75-130 of the turn: the alert decided for the product, if any, is
\* added; after the last product the session is ready to commit
AlertTxCreate(w) ==
    /\ tx[w].pc = "deleted"
    /\ LET product == catalog.products[ProductSeq[tx[w].pos]]
           decision == AlertDecision(product, AlertUser, catalog.safety)
           row == AlertRow(AlertUser, product.id, decision, tx[w].gen)
           new == IF decision = NoDecision THEN {}
                  ELSE {[id |-> pg.nextId, gen |-> tx[w].gen, product |-> row.product,
                         user |-> row.user, alert_type |-> row.alert_type,
                         priority |-> row.priority, is_resolved |-> row.is_resolved]}
       IN  /\ tx' = [tx EXCEPT ![w].ins = @ \cup new,
                               ![w].pc = IF tx[w].pos < Len(ProductSeq)
                                         THEN "next" ELSE "flushed"]
           /\ pg' = [pg EXCEPT !.nextId = @ + Cardinality(new)]
    /\ UNCHANGED <<seqVars, obs>>

\* line 132: COMMIT
AlertTxCommit(w) ==
    /\ tx[w].pc = "flushed"
    /\ pg' = [pg EXCEPT !.rows = {r \in @ : r.id \notin tx[w].del} \cup tx[w].ins]
    /\ tx' = [tx EXCEPT ![w] = [IdleTx EXCEPT !.runs = tx[w].runs + 1]]
    /\ UNCHANGED <<seqVars, obs>>

\* product 1 is out of stock or not, product 2 a slow seller; the table is
\* empty or holds an unresolved alert of product 1 from an earlier run
InitAlertRace ==
    /\ catalog \in {c \in Catalogs :
                        /\ c.safety = 7 /\ c.products[1].supplier_id = 0
                        /\ c.products[1].reorder_point = 10
                        /\ c.products[1].quantity_reserved = 0
                        /\ c.products[1].quantity_on_order = 0
                        /\ c.products[1].quantity_on_hand \in {0, 40}}
    /\ sales = <<>>
    /\ today = FirstDay + WindowDays
    /\ alerts = [p \in {1, 2} |-> <<>>]
    /\ forecasts = [k \in Users \X ProductIds |-> <<>>]
    /\ call = NoCall
    /\ \E old \in {{}, {[id |-> 1, gen |-> 0, product |-> 1, user |-> AlertUser,
                         alert_type |-> "low_stock", priority |-> "medium",
                         is_resolved |-> FALSE]}} :
        pg = [rows |-> old, nextId |-> 2, nextGen |-> 1, h |-> 0, log |-> <<>>]
    /\ tx = [w \in Writers |-> IdleTx]
    /\ obs = NoObs

NextAlertRace ==
    \/ \E w \in Writers : AlertTxBeginDelete(w)
    \/ \E w \in Writers : AlertTxFinishDelete(w)
    \/ \E w \in Writers : AlertTxCreate(w)
    \/ \E w \in Writers : AlertTxCommit(w)

SpecAlertRace == InitAlertRace /\ [][NextAlertRace]_vars

AllRunsDone == \A w \in Writers : tx[w].pc = "idle" /\ tx[w].runs >= 1

\* C4: after two concurrent runs of generate_alerts for the same tenant have
\* both committed, no product has more than one unresolved alert
C4_SerializedAlertRuns ==
    AllRunsDone =>
        \A p \in DOMAIN catalog.products :
            Cardinality(UnresolvedIds(pg.rows, AlertUser, p)) <= 1

----------------------------------------------------------------------------
(* Runs of generate_alerts over a table that already holds alerts *)

\* an alert of product 1 left by an earlier request
OldAlert(type, priority) ==
    [user |-> AlertUser, product |-> 1, alert_type |-> type, priority |-> priority,
     recommended_quantity |-> <<>>, is_read |-> FALSE, is_resolved |-> FALSE,
     created_at |-> 0]

\* the alerts of product 1 at the start: none, one, or two unresolved ones
\* (the two that concurrent runs leave behind)
OldAlerts ==
    {<<>>,
     <<OldAlert("overstock", "low")>>,
     <<OldAlert("overstock", "low"), OldAlert("low_stock", "medium")>>}

\* product 1 is out of stock or needs no alert, product 2 is a slow seller
SoundCatalogs ==
    {c \in Catalogs :
        /\ c.safety = 7 /\ c.products[1].supplier_id = 0
        /\ c.products[1].reorder_point = 10
        /\ c.products[1].quantity_reserved = 0
        /\ c.products[1].quantity_on_order = 0
        /\ c.products[1].quantity_on_hand \in {0, 40}}

\* the same, and with the reorder_point of product 2 set to null (PUT
\* /products/{id} with "reorder_point": null)
HistoryCatalogs ==
    SoundCatalogs \cup
        {[c EXCEPT !.products[2].reorder_point = None] : c \in SoundCatalogs}

InitAlertHistory ==
    /\ catalog \in HistoryCatalogs
    /\ sales = <<>>
    /\ today = FirstDay + WindowDays
    /\ \E old \in OldAlerts : alerts = (1 :> old) @@ (2 :> <<>>)
    /\ forecasts = [k \in Users \X ProductIds |-> <<>>]
    /\ call = NoCall
    /\ pg = NoPg /\ tx = NoTx /\ obs = NoObs

Flags == {"keep", "true", "false"}

NextAlertHistory ==
    \/ \E u \in Users : GenerateAlerts(u)
    \/ \E u \in Users, p \in DOMAIN alerts : \E i \in 1..Len(alerts[p]) :
            ResolvedCount(p) < MaxResolved /\ ResolveAlert(u, p, i)
    \/ \E u \in Users, p \in DOMAIN alerts, read \in Flags, resolved \in Flags :
        \E i \in 1..Len(alerts[p]) :
            /\ resolved = "true" => ResolvedCount(p) < MaxResolved
            /\ UpdateAlert(u, p, i, read, resolved)

SpecAlertHistory == InitAlertHistory /\ [][NextAlertHistory]_vars

\* a run of generate_alerts for the tenant has completed
RunCompleted == AlertRan /\ call.outcome = "ok"

\* C11: when a run of generate_alerts completes, every product it evaluated
\* has at most one unresolved alert, whatever it had before, and that alert
\* was created by this run
C11_OneUnresolvedPerProduct ==
    RunCompleted => \A p \in ProductsOf(call.user) :
        /\ Len(Unresolved(p)) <= 1
        /\ \A i \in 1..Len(Unresolved(p)) : Unresolved(p)[i].created_at = call.at

\* a run found two unresolved alerts of product 1 and left one of its own
C11_Witness ==
    /\ RunCompleted
    /\ Cardinality({i \in 1..Len(call.prior[1]) : ~call.prior[1][i].is_resolved}) >= 2
    /\ Len(Unresolved(1)) = 1

----------------------------------------------------------------------------
(* POService.create_po_from_recommendations, on tables purchase_orders and  *)
(* purchase_order_items (pg.rows: one row per order, its items within)      *)

\* Product.unit_cost, in cents
UnitCost(p) == CASE p = 1 -> 250 [] p = 2 -> 100 [] OTHER -> 75

\* lines 172-178: the product row of id pid owned by the tenant, if any
OwnedProduct(u, pid) ==
    pid \in DOMAIN catalog.products /\ catalog.products[pid].user = u

\* lines 171-183, the keys of by_supplier in insertion order: the supplier
\* ids (0 for none) of the requested products the tenant owns, each once
RECURSIVE SupplierKeys(_, _, _)
SupplierKeys(u, ids, acc) ==
    IF ids = <<>> THEN acc
    ELSE LET sid == catalog.products[Head(ids)].supplier_id
         IN  IF ~OwnedProduct(u, Head(ids)) \/ sid \in SeqRange(acc)
             THEN SupplierKeys(u, Tail(ids), acc)
             ELSE SupplierKeys(u, Tail(ids), Append(acc, sid))

\* by_supplier[sid]: the requested products of that supplier, in request order
GroupOf(u, ids, sid) ==
    SelectSeq(ids, LAMBDA pid : OwnedProduct(u, pid)
                                 /\ catalog.products[pid].supplier_id = sid)

\* no group is skipped
SkippedGroupNever(sid) == FALSE

\* lines 189-190: the group of the products without supplier is skipped
SkippedGroup(sid) == sid = 0

\* the totals t below 490 for which the float t / 30 * 30 falls short of t, so
\* that int() gives t - 1 (IEEE 754 double arithmetic)
LossyTotals == {123, 245, 246, 247}

\* int(avg_daily * 30), with avg_daily = total / 30
MonthOfDemand(total) == IF total \in LossyTotals THEN total - 1 ELSE total

\* lines 216-217: quantity = max(1, int(avg_daily * 30))
PoQuantity(u, pid) == Max2(1, MonthOfDemand(TotalQty(u, pid)))

\* lines 219-228: the item of a product
PoItem(u, pid) ==
    [product_id |-> pid, quantity |-> PoQuantity(u, pid), unit_cost |-> UnitCost(pid),
     total_cost |-> PoQuantity(u, pid) * UnitCost(pid)]

\* lines 198-233: the order of group sid, under primary key id
PoRow(u, ids, sid, id) ==
    LET items == [i \in 1..Len(GroupOf(u, ids, sid)) |-> PoItem(u, GroupOf(u, ids, sid)[i])]
        subtotal == SumSeq([i \in 1..Len(items) |-> items[i].total_cost])
    IN  [id |-> id, user |-> u, supplier_id |-> sid, status |-> "draft",
         items |-> items, subtotal |-> subtotal, total |-> subtotal]

\* lines 188-233: the orders of the groups that are not skipped, with ids
\* from nextId on
POGroups(u, ids) == SelectSeq(SupplierKeys(u, ids, <<>>), LAMBDA sid : ~SkippedGroup(sid))

CreatedOrders(u, ids, nextId) ==
    {PoRow(u, ids, POGroups(u, ids)[k], nextId + k - 1) : k \in 1..Len(POGroups(u, ids))}

\* create_po_from_recommendations(self, product_ids) with self.user_id = u
CreatePoFromRecommendations(u, ids) ==
    /\ pg.nextGen <= MaxPoCalls
    /\ IF ids = <<>>
       THEN \* raise ValueError("No products specified")
            /\ pg' = [pg EXCEPT !.nextGen = @ + 1]
            /\ call' = [op |-> "po", user |-> u, ids |-> ids, outcome |-> "error",
                        created |-> {}]
       ELSE /\ pg' = [pg EXCEPT !.rows = @ \cup CreatedOrders(u, ids, pg.nextId),
                                !.nextId = @ + Len(POGroups(u, ids)),
                                !.nextGen = @ + 1]
            /\ call' = [op |-> "po", user |-> u, ids |-> ids, outcome |-> "ok",
                        created |-> {pg.nextId + k - 1 : k \in 1..Len(POGroups(u, ids))}]
    /\ UNCHANGED <<sales, forecasts, today, catalog, alerts, tx, obs>>

\* the ids a request may name: products 1-3 of the tenant, product 4 of
\* another tenant
RequestIds == 1..4

RECURSIVE SeqsUpTo(_, _)
SeqsUpTo(S, n) ==
    IF n = 0 THEN {<<>>}
    ELSE SeqsUpTo(S, n - 1) \cup
         {Append(q, x) : q \in {r \in SeqsUpTo(S, n - 1) : Len(r) = n - 1}, x \in S}

\* product 1 of supplier 1, product 2 of supplier 1 or 2, product 3 without
\* supplier, product 4 of supplier 2 and of tenant 2
POCatalogs ==
    {[safety |-> 7,
      products |-> (1 :> ProductRecord(1, 1, 10, 0, 0, 0)) @@
                   (2 :> ProductRecord(2, sup2, 10, 0, 0, 0)) @@
                   (3 :> ProductRecord(3, 0, 10, 0, 0, 0)) @@
                   (4 :> [ProductRecord(4, 2, 10, 0, 0, 0) EXCEPT !.user = 2])] :
        sup2 \in {1, 2}}

POSoldChoices == {0, 30, 123}   \* quantity of product 1 sold today

InitPO ==
    /\ catalog \in POCatalogs
    /\ \E sold \in POSoldChoices : sales = SaleRows(sold)
    /\ today = FirstDay + WindowDays
    /\ alerts = NoAlerts
    /\ forecasts = [k \in Users \X ProductIds |-> <<>>]
    /\ call = NoCall
    /\ pg = NoPg /\ tx = NoTx /\ obs = NoObs

NextPO ==
    \E ids \in SeqsUpTo(RequestIds, MaxIds) : CreatePoFromRecommendations(AlertUser, ids)

SpecPO == InitPO /\ [][NextPO]_vars

\* the orders the last request created
Created == {o \in pg.rows : o.id \in call.created}

PoDone == call.op = "po" /\ call.outcome = "ok"

\* the suppliers of the requested products that the tenant owns
RequestedSuppliers ==
    {catalog.products[pid].supplier_id :
        pid \in {x \in SeqRange(call.ids) : x \in DOMAIN catalog.products
                                              /\ catalog.products[x].user = call.user}}

\* C16: create_po_from_recommendations creates exactly one draft order per
\* distinct supplier among the requested products of the tenant; an order
\* holds only products of its supplier; a product without supplier is in no
\* order, and no order is created for the missing supplier
C16_SupplierGrouping ==
    PoDone =>
        /\ \A sid \in RequestedSuppliers \ {0} :
                Cardinality({o \in Created : o.supplier_id = sid}) = 1
        /\ \A o \in Created :
            /\ o.supplier_id \in RequestedSuppliers \ {0}
            /\ o.status = "draft" /\ o.user = call.user
            /\ \A i \in 1..Len(o.items) :
                /\ o.items[i].product_id \in SeqRange(call.ids)
                /\ catalog.products[o.items[i].product_id].user = call.user
                /\ catalog.products[o.items[i].product_id].supplier_id = o.supplier_id

\* three product ids, one without supplier, the other two of two suppliers:
\* two orders
C16_Witness ==
    /\ PoDone
    /\ Len(call.ids) = 3 /\ 3 \in SeqRange(call.ids)
    /\ Cardinality(Created) = 2
    /\ \A o \in Created : Len(o.items) = 1

\* C17: every item of a created order has quantity max(1, avg_daily_demand x
\* 30) of its product, avg_daily_demand x 30 being the quantity sold in the
\* window, and the order's subtotal and total are the sum of quantity x
\* unit_cost over its items
C17_DraftQuantity ==
    PoDone => \A o \in Created :
        /\ \A i \in 1..Len(o.items) :
            o.items[i].quantity =
                IF TotalQty(call.user, o.items[i].product_id) >= 1
                THEN TotalQty(call.user, o.items[i].product_id) ELSE 1
        /\ o.subtotal = SumSeq([i \in 1..Len(o.items) |->
                                    o.items[i].quantity * o.items[i].unit_cost])
        /\ o.total = o.subtotal

----------------------------------------------------------------------------
(* routers/forecasts.py, generate_all_forecasts *)

\* line 157: the ids of the tenant's products, in table order
TenantProducts(u) ==
    LET ids == [i \in 1..Len(catalog.products) |-> catalog.products[i].id]
    IN  SelectSeq(ids, LAMBDA i : catalog.products[i].user = u)

\* lines 163-168 for one product: whether the call returned, and table
\* forecasts after it
ForecastAttempt(table, u, p, h, votes) ==
    LET df == SalesOf(u, p)
    IN  IF "generate_forecast" \notin ForecastServiceMethods
        THEN \* service.generate_forecast: AttributeError, caught at line 166
             [ok |-> FALSE, table |-> table]
        ELSE IF UseFallback(df)
        THEN [ok |-> h >= 1, table |-> SaveForecasts(table, u, p, FallbackPredictions(df, h))]
        ELSE IF NTrain(Len(DailyQty(df))) = 0
        THEN [ok |-> FALSE, table |-> table]
        ELSE [ok |-> h >= 1, table |-> SaveForecasts(table, u, p, MakePredictions(df, h, votes))]

\* lines 160-170: the loop over the products, from the report r so far
RECURSIVE BatchLoop(_, _, _, _, _)
BatchLoop(r, u, ps, h, votes) ==
    IF ps = <<>> THEN r
    ELSE LET a == ForecastAttempt(r.table, u, Head(ps), h, votes[Head(ps)])
         IN  BatchLoop([table |-> a.table,
                        generated |-> r.generated + (IF a.ok THEN 1 ELSE 0),
                        failed |-> r.failed + (IF a.ok THEN 0 ELSE 1),
                        errors |-> IF a.ok THEN r.errors ELSE Append(r.errors, Head(ps))],
                       u, Tail(ps), h, votes)

\* POST /forecasts/generate-all as user u: the report holds the two counts and
\* one message per failed product (the product it names stands for it)
GenerateAllForecasts(u, h) ==
    /\ UNCHANGED <<sales, today, fcVars>>
    /\ \E votes \in IF "generate_forecast" \in ForecastServiceMethods
                     THEN [1..Len(catalog.products) -> [1..h -> Votes]]
                     ELSE {[i \in 1..Len(catalog.products) |-> <<>>]} :
        LET r == BatchLoop([table |-> forecasts, generated |-> 0, failed |-> 0,
                            errors |-> <<>>],
                           u, TenantProducts(u), h, votes)
        IN  /\ forecasts' = r.table
            /\ call' = [op |-> "batch", user |-> u, horizon |-> h,
                        generated |-> r.generated, failed |-> r.failed,
                        errors |-> r.errors, wrote |-> forecasts' # forecasts]

\* a tenant with n products, none with a supplier
BatchCatalog(n) ==
    [safety |-> 7, products |-> [i \in 1..n |-> ProductRecord(i, 0, 10, 0, 0, 0)]]

\* sales of product 1: none, fewer than MinHistory rows, MaxSales rows
BatchHistories ==
    {History(n, 1, 1, 1, 1) : n \in {0, MinHistory - 1, MaxSales}}

InitBatch ==
    /\ \E n \in 0..MaxProducts : catalog = BatchCatalog(n)
    /\ sales \in BatchHistories
    /\ today = (IF sales = <<>> THEN FirstDay ELSE LastDate(sales))
    /\ forecasts = [k \in Users \X (1..MaxProducts) |-> <<>>]
    /\ alerts = NoAlerts
    /\ call = NoCall
    /\ pg = NoPg /\ tx = NoTx /\ obs = NoObs

NextBatch == \E u \in Users, h \in 0..MaxHorizon : GenerateAllForecasts(u, h)

SpecBatch == InitBatch /\ [][NextBatch]_vars

BatchDone == call.op = "batch"

\* generate_forecast's own computation for product p ends without error: a
\* horizon of at least one day, and a history that either takes the fallback
\* or leaves rows to train on
OwnComputationSucceeds(u, p, h) ==
    /\ h >= 1
    /\ UseFallback(SalesOf(u, p)) \/ NTrain(Len(DailyQty(SalesOf(u, p)))) > 0

ErrorLimit == 10

\* C19: the error list of a batch forecast run never holds more than a fixed
\* number of messages
C19_BoundedErrorReport == BatchDone => Len(call.errors) <= ErrorLimit

----------------------------------------------------------------------------
(* Forecast generation and alert runs over the same database *)

\* table alerts as a run of generate_alerts leaves it on an empty table
AfterFirstRun ==
    [p \in {1, 2} |->
        EvaluateProduct(<<>>, catalog.products[p], AlertUser, catalog.safety, 0)]

InitAlertForecast ==
    /\ catalog \in SoundCatalogs
    /\ \E sold \in {0, 30} : sales = SaleRows(sold)
    /\ today = FirstDay + WindowDays
    /\ forecasts = [k \in Users \X ProductIds |-> <<>>]
    /\ alerts = AfterFirstRun
    /\ call = NoCall
    /\ pg = NoPg /\ tx = NoTx /\ obs = NoObs

NextAlertForecast ==
    \/ \E u \in Users, p \in ProductIds, h \in 0..MaxHorizon : GenerateForecast(u, p, h)
    \/ GenerateAlerts(AlertUser)

SpecAlertForecast == InitAlertForecast /\ [][NextAlertForecast]_vars

\* C21: a generate_forecast call for product p and tenant u changes no
\* forecast row but those of (p, u), and no alert, inventory or sales record
C21_ForecastWriteFrame ==
    [][call'.op = "service" =>
        /\ \A k \in DOMAIN forecasts :
                k # <<call'.user, call'.product>> => forecasts'[k] = forecasts[k]
        /\ alerts' = alerts /\ catalog' = catalog /\ sales' = sales]_vars

\* a call replaced the rows of its own key while another tenant held forecast
\* rows of the same product, and alerts and inventory were on record
C21_Witness ==
    /\ call.op = "service" /\ call.wrote /\ call.prior >= 1
    /\ \E u \in Users \ {call.user} : ForecastsOf(forecasts, u, call.product) # <<>>
    /\ \E p \in DOMAIN alerts : alerts[p] # <<>>
    /\ catalog.products # <<>>

\* what an alert says: its type, priority and recommended quantity
AlertFields(rows) ==
    [i \in 1..Len(rows) |->
        [alert_type |-> rows[i].alert_type, priority |-> rows[i].priority,
         recommended_quantity |-> rows[i].recommended_quantity]]

\* C25: the alerts a run of generate_alerts produces do not depend on the
\* stored forecast rows: a run on a database that differs from the one of
\* the run before only in its forecast rows leaves, for every product, the
\* same alert (or none) with the same type, priority and
\* recommended_quantity
C25_AlertsIgnoreForecast ==
    RunCompleted => \A p \in ProductsOf(AlertUser) :
        AlertFields(alerts[p]) = AlertFields(call.prior[p])

\* a run on stored forecast rows of product 1 inside the lead-time window
\* replaced an alert, carrying a quantity, of a run without forecast rows
C25_Witness ==
    /\ RunCompleted
    /\ ForecastDemand(catalog.products[1], catalog.safety) > 0
    /\ Len(call.prior[1]) = 1 /\ call.prior[1][1].created_at = 0
    /\ Len(alerts[1]) = 1 /\ alerts[1][1].created_at = call.at
    /\ alerts[1][1].recommended_quantity # <<>>

----------------------------------------------------------------------------
(* ForecastService._create_features and _make_predictions, column by column *)

Lags == {1, 7, 14, 30}      \* for lag in [1, 7, 14, 30]
Windows == {7, 14, 30}      \* for window in [7, 14, 30]

\* a missing value of a float column
NaN == [rad |-> -1, n |-> 1]

\* daily['quantity'].shift(lag), row i: <<>> is the missing value of the
\* first lag rows
Shift(daily, lag, i) == IF i > lag THEN <<daily[i - lag]>> ELSE <<>>

\* rolling(window, min_periods=1) at row i: the rows i - window + 1 .. i that
\* exist
RollingWindow(daily, window, i) == SubSeq(daily, Max2(1, i - window + 1), i)

\* .std() of pandas, the sample standard deviation sqrt(rad / (n (n - 1))),
\* rad = n * sum(v^2) - sum(v)^2; missing for a single sample
PandasStd(w) ==
    LET n == Len(w)
        s1 == SumSeq(w)
        s2 == SumSeq([i \in 1..n |-> w[i] * w[i]])
    IN  IF n < 2 THEN NaN ELSE [rad |-> n * s2 - s1 * s1, n |-> n]

\* a table whose missing values stay
FillNaStdNothing(x) == x

\* line 86, daily.fillna(0), on a cell of a rolling_std column
FillNaStd(x) == IF x = NaN THEN NoStd ELSE x

\* line 86 on a cell of a lag column
FillNaLag(x) == IF x = <<>> THEN 0 ELSE x[1]

\* _create_features: the table, without the calendar columns (quantities in
\* units; rolling_mean as the pair sum, count)
CreateFeaturesTable(df) ==
    LET daily == DailyQty(df)
        first == MinOf({df[i].d : i \in 1..Len(df)})
    IN  IF df = <<>> THEN <<>>
        ELSE [i \in 1..Len(daily) |->
                [sale_date |-> first + i - 1,
                 quantity |-> daily[i],
                 lag |-> [k \in Lags |-> FillNaLag(Shift(daily, k, i))],
                 rolling_mean |-> [w \in Windows |->
                    <<SumSeq(RollingWindow(daily, w, i)), Len(RollingWindow(daily, w, i))>>],
                 rolling_std |-> [w \in Windows |->
                    FillNaStd(PandasStd(RollingWindow(daily, w, i)))]]]

\* lines 161-164: quantities[-k] if len(quantities) >= k else 0
LagFeature(quantities, k) ==
    IF Len(quantities) >= k THEN quantities[Len(quantities) - k + 1] ELSE 0

\* lines 167-177: quantities[-w:] if len(quantities) >= w else quantities
RecentQty(quantities, w) ==
    IF Len(quantities) >= w THEN LastK(quantities, w) ELSE quantities

\* lines 161-177: the lag and rolling features of one step (hundredths)
StepFeatures(quantities) ==
    [quantities |-> quantities,
     lag |-> [k \in Lags |-> LagFeature(quantities, k)],
     rolling_mean |-> [w \in Windows |->
        <<SumSeq(RecentQty(quantities, w)), Len(RecentQty(quantities, w))>>],
     rolling_std |-> [w \in Windows |->
        IF Len(RecentQty(quantities, w)) > 1 THEN StdC(RecentQty(quantities, w))
        ELSE NoStd]]

\* the features of every step of the loop that produced the points
StepsOf(df, points) ==
    LET daily == DailyQty(df)
        recent == [i \in 1..Len(LastK(daily, TailLen)) |-> 100 * LastK(daily, TailLen)[i]]
    IN  [i \in 1..Len(points) |->
            StepFeatures(StepQuantities(recent, [k \in 1..(i - 1) |-> points[k].pred]))]

\* self._create_features(self._get_sales_data(product_id)) with self.user_id = u
CreateFeatures(u, p) ==
    /\ call' = [op |-> "features", user |-> u, product |-> p,
                table |-> CreateFeaturesTable(SalesOf(u, p))]
    /\ UNCHANGED <<sales, forecasts, today, fcVars>>

\* self._make_predictions(feature_df, h) after _create_features and
\* _train_model, as lines 222-224 call it
MakePredictionsCall(u, p, h, votes) ==
    /\ ~UseFallback(SalesOf(u, p))
    /\ NTrain(Len(DailyQty(SalesOf(u, p)))) >= 1
    /\ call' = [op |-> "predict", user |-> u, product |-> p, horizon |-> h,
                points |-> MakePredictions(SalesOf(u, p), h, votes),
                steps |-> StepsOf(SalesOf(u, p), MakePredictions(SalesOf(u, p), h, votes))]
    /\ UNCHANGED <<sales, forecasts, today, fcVars>>

NextFeatures ==
    \/ \E u \in Users, p \in Products : CreateFeatures(u, p)
    \/ \E u \in Users, p \in Products, h \in 1..MaxSteps :
            \E votes \in [1..h -> Votes] : MakePredictionsCall(u, p, h, votes)

SpecFeatures == Init /\ [][NextFeatures]_vars

FeaturesBuilt == call.op = "features" /\ call.table # <<>>
Predicted == call.op = "predict"

\* C22: the rolling standard deviation over a single sample is 0: in the
\* first row of the feature table, for every window, and in the recursive
\* forecaster whenever its trailing window holds one element
C22_SingleSampleStd ==
    /\ FeaturesBuilt => \A w \in Windows : \A i \in 1..Len(call.table) :
            i = 1 => call.table[i].rolling_std[w] = NoStd
    /\ Predicted => \A i \in 1..Len(call.steps) : \A w \in Windows :
            Len(call.steps[i].quantities) = 1 => call.steps[i].rolling_std[w] = NoStd
    /\ \A v \in 0..MaxQty : \A w \in Windows :
            StepFeatures(<<100 * v>>).rolling_std[w] = NoStd

\* a feature table of several days whose later rows have a deviation above 0
C22_Witness ==
    /\ FeaturesBuilt /\ Len(call.table) >= 2
    /\ call.table[1].quantity > 0
    /\ call.table[2].rolling_std[7].rad > 0

\* the full actual history followed by the predictions made before step i
SeriesBefore(i) ==
    [j \in 1..Len(DailyQty(CallDf)) |-> 100 * DailyQty(CallDf)[j]]
        \o [j \in 1..(i - 1) |-> call.points[j].pred]

\* C23: at forecast step i, lag_k is the element at position len(history) +
\* i - 1 - k (counted from 0) of the history followed by the predictions
\* already made, when that position exists, and 0 otherwise
C23_RecursiveLags ==
    Predicted => \A i \in 1..Len(call.steps) : \A k \in Lags :
        call.steps[i].lag[k] =
            IF Len(SeriesBefore(i)) - k >= 0 THEN SeriesBefore(i)[Len(SeriesBefore(i)) - k + 1]
            ELSE 0

\* C24: the feature table of a non-empty history has one row per calendar
\* day from the first to the last sale date; a row's quantity is the sum of
\* the day's sales, 0 without sale; its lag_k is the quantity k days earlier,
\* 0 within the first k days
C24_DenseFeatureTable ==
    (call.op = "features" /\ CallDf # <<>>) =>
        LET first == MinOf({CallDf[i].d : i \in 1..Len(CallDf)})
            last == MaxOf({CallDf[i].d : i \in 1..Len(CallDf)})
        IN  /\ Len(call.table) = last - first + 1
            /\ \A i \in 1..Len(call.table) :
                /\ call.table[i].sale_date = first + i - 1
                /\ call.table[i].quantity = SumQtyOn(CallDf, first + i - 1, 1)
                /\ \A k \in Lags :
                    call.table[i].lag[k] =
                        IF i > k THEN SumQtyOn(CallDf, first + i - 1 - k, 1) ELSE 0

\* a table with days without sale, a day whose quantity sums two sales, and
\* a lag_1 above 0
C24_Witness ==
    /\ FeaturesBuilt
    /\ Len(call.table) > Cardinality({CallDf[i].d : i \in 1..Len(CallDf)})
    /\ \E i \in 1..Len(call.table) : call.table[i].quantity >= 2
    /\ \E i \in 1..Len(call.table) : call.table[i].lag[1] >= 2

----------------------------------------------------------------------------
(* AlertService._get_avg_daily_demand on sales around the window *)

\* _get_avg_daily_demand(product_id) with self.user_id = u: the answer is
\* total / 30, recorded as total
GetAvgDailyDemand(u, p) ==
    /\ call' = [op |-> "demand", user |-> u, product |-> p, total |-> TotalQty(u, p)]
    /\ UNCHANGED <<sales, forecasts, today, fcVars>>

\* the days before today on which a sale may be dated (-1 is tomorrow)
DaysAgoChoices == {WindowDays + 1, WindowDays, WindowDays - 1, 0, -1}

\* one sale row of quantity q by tenant u on each day of D, in date order
RECURSIVE SalesOn(_, _, _, _)
SalesOn(D, u, q, day) ==
    IF D = {} THEN <<>>
    ELSE <<[user |-> u, product |-> 1, d |-> day - MaxOf(D), q |-> q]>>
            \o SalesOn(D \ {MaxOf(D)}, u, q, day)

InitDemand ==
    /\ today = FirstDay + WindowDays + 1
    /\ \E D \in SUBSET DaysAgoChoices, u \in Users, q \in 1..(MaxQty + 1) :
            sales = SalesOn(D, u, q, today)
    /\ forecasts = [k \in Users \X ProductIds |-> <<>>]
    /\ catalog = NoCatalog /\ alerts = NoAlerts
    /\ call = NoCall
    /\ pg = NoPg /\ tx = NoTx /\ obs = NoObs

NextDemand == \E u \in Users, p \in Products : GetAvgDailyDemand(u, p)

SpecDemand == InitDemand /\ [][NextDemand]_vars

\* the quantity of the tenant's sales of the product dated from..to
RECURSIVE SoldBetween(_, _, _, _, _)
SoldBetween(u, p, from, to, i) ==
    IF i > Len(sales) THEN 0
    ELSE (IF sales[i].user = u /\ sales[i].product = p
             /\ sales[i].d >= from /\ sales[i].d <= to
          THEN sales[i].q ELSE 0) + SoldBetween(u, p, from, to, i + 1)

\* C26: avg_daily_demand x 30 is the quantity of the tenant's sales of the
\* product dated within the 30 most recent calendar days (the 30 days that
\* end today, or the 30 days that end yesterday); sales older than that or
\* dated after today add nothing
C26_TrailingWindow ==
    call.op = "demand" =>
        \/ call.total = SoldBetween(call.user, call.product, today - 29, today, 1)
        \/ call.total = SoldBetween(call.user, call.product, today - 30, today - 1, 1)

----------------------------------------------------------------------------
(* generate_forecast over longer horizons *)

\* histories of the fallback and of the model: 3 or MaxSales sale rows of
\* quantities 0 and 1, one or two a day
SummaryHistories ==
    {History(n, perDay, 1, q1, q2) :
        n \in {3, MaxSales}, perDay \in PerDayChoices, q1 \in 0..MaxQty, q2 \in 0..MaxQty}

InitSummary ==
    /\ sales \in SummaryHistories
    /\ forecasts = [k \in Users \X ProductIds |-> <<>>]
    /\ today = LastDate(sales)
    /\ call = NoCall
    /\ pg = NoPg /\ tx = NoTx /\ obs = NoObs
    /\ catalog = NoCatalog /\ alerts = NoAlerts

\* horizon_days: none, one day, three days
SummaryHorizons == {0, 1, 3}

NextSummary == \E p \in ProductIds, h \in SummaryHorizons : GenerateForecast(1, p, h)

SpecSummary == InitSummary /\ [][NextSummary]_vars

StoredTotal == SumSeq([i \in 1..Len(CallRows) |-> CallRows[i].pred])

\* the peak of the response is the earliest of the stored points of maximum
\* predicted_quantity
PeakIsEarliestMax ==
    \E i \in 1..Len(CallRows) :
        /\ call.summary.peak_date = CallRows[i].date
        /\ call.summary.peak_quantity = CallRows[i].pred
        /\ \A j \in 1..Len(CallRows) : CallRows[j].pred <= CallRows[i].pred
        /\ \A j \in 1..(i - 1) : CallRows[j].pred < CallRows[i].pred

\* C27 as stated: the response of a successful generate_forecast reports the
\* sum of the points' predicted_quantity, that sum divided by the number of
\* points, and as peak the earliest point of maximum predicted_quantity
C27_SummaryExact ==
    ServiceOk =>
        /\ call.summary.total_predicted_demand = StoredTotal
        /\ call.summary.avg_daily_demand * Len(CallRows) = StoredTotal
        /\ PeakIsEarliestMax

\* C27: the same, the average being the sum divided by the number of points
\* rounded to two decimals (within half a hundredth of the quotient)
C27_Summary ==
    ServiceOk =>
        /\ call.summary.total_predicted_demand = StoredTotal
        /\ 2 * call.summary.avg_daily_demand * Len(CallRows) <= 2 * StoredTotal + Len(CallRows)
        /\ 2 * call.summary.avg_daily_demand * Len(CallRows) >= 2 * StoredTotal - Len(CallRows)
        /\ PeakIsEarliestMax

\* three points 0, 1, 1: the mean is not a number of hundredths and two
\* points share the maximum
C27_Witness ==
    /\ ServiceOk /\ Len(CallRows) = 3
    /\ CallRows[1].pred < CallRows[2].pred /\ CallRows[2].pred = CallRows[3].pred
    /\ call.summary.avg_daily_demand * 3 # StoredTotal

\* C28: a generate_forecast call that ends in an error, whatever the product,
\* the history and horizon_days, leaves the stored forecast set as it was
C28_NoDestructiveFailure ==
    (call.op = "service" /\ call.outcome \in {"error", "not_found"}) => ~call.wrote

----------------------------------------------------------------------------
(* routers/forecasts.py, get_forecast *)

\* lines 60-64: the stored rows of the product and the tenant dated today or
\* later
CurrentForecasts(u, p) ==
    SelectSeq(ForecastsOf(forecasts, u, p), LAMBDA r : r.date >= today)

\* GET /forecasts/{product_id} as user u
GetForecast(u, p) ==
    /\ call' = [op |-> "get", user |-> u, product |-> p,
                outcome |-> IF ~(p \in Products /\ Owner(p) = u)
                            THEN "not_found"        \* 404 Product not found
                            ELSE IF CurrentForecasts(u, p) = <<>>
                            THEN "no_forecasts"     \* 404 No forecasts found
                            ELSE "ok",
                rows |-> IF p \in Products /\ Owner(p) = u
                         THEN CurrentForecasts(u, p) ELSE <<>>]
    /\ UNCHANGED <<sales, forecasts, today, fcVars>>

\* days from the last sale to today
ReadIdleChoices == {0, MaxHorizon}

InitRead ==
    /\ sales \in SummaryHistories
    /\ forecasts = [k \in Users \X ProductIds |-> <<>>]
    /\ today \in {LastDate(sales) + idle : idle \in ReadIdleChoices}
    /\ call = NoCall
    /\ pg = NoPg /\ tx = NoTx /\ obs = NoObs
    /\ catalog = NoCatalog /\ alerts = NoAlerts

NextRead ==
    \/ \E p \in ProductIds, h \in 0..MaxHorizon : GenerateForecast(Owner(p), p, h)
    \/ \E u \in Users, p \in ProductIds : GetForecast(u, p)

SpecRead == InitRead /\ [][NextRead]_vars

\* C29: once a generate_forecast with horizon_days >= 1 has stored the forecast
\* of a product of the caller (the stored set is not empty: the last write
\* was a successful one), get_forecast for that product answers with a
\* non-empty forecast, whatever the date of the last sale
C29_GeneratedIsReadable ==
    (call.op = "get" /\ call.product \in Products /\ Owner(call.product) = call.user
        /\ ForecastsOf(forecasts, call.user, call.product) # <<>>)
        => call.outcome = "ok" /\ call.rows # <<>>

----------------------------------------------------------------------------
(* routers/sales.py, create_sale, by concurrent requests. catalog and sales  *)
(* hold the committed rows; tx[w] is the session of request w: the           *)
(* quantity_on_hand it read (seen) and the quantity it sells; obs keeps the  *)
(* quantity_on_hand the requests started from                                *)

IdleSale == [pc |-> "idle", seen |-> 0, qty |-> 0, runs |-> 0, last |-> "none"]

\* lines 48-66: the product and the inventory row are read and the stock is
\* checked; 404 for a product of another tenant, 400 for insufficient stock
SaleCheck(w, u, q) ==
    /\ tx[w].pc = "idle" /\ tx[w].runs < MaxRuns
    /\ IF catalog.products[1].user # u
       THEN tx' = [tx EXCEPT ![w].runs = @ + 1, ![w].last = "not_found"]
       ELSE IF catalog.products[1].quantity_on_hand < q
       THEN tx' = [tx EXCEPT ![w].runs = @ + 1, ![w].last = "insufficient"]
       ELSE tx' = [tx EXCEPT ![w].pc = "checked", ![w].qty = q,
                             ![w].seen = catalog.products[1].quantity_on_hand]
    /\ UNCHANGED <<sales, forecasts, today, call, catalog, alerts, pg, obs>>

\* lines 69-85: inventory.quantity_on_hand -= quantity sets the attribute to
\* the value read less the quantity; db.commit() sends UPDATE inventory SET
\* quantity_on_hand = <that value> and the INSERT of the sale, and commits.
\* The UPDATE waits for the row lock of a session that is committing, which
\* here is the order of the commits
SaleCommit(w) ==
    /\ tx[w].pc = "checked"
    /\ catalog' = [catalog EXCEPT !.products[1].quantity_on_hand = tx[w].seen - tx[w].qty]
    /\ sales' = Append(sales, [user |-> catalog.products[1].user, product |-> 1,
                               d |-> today, q |-> tx[w].qty])
    /\ tx' = [tx EXCEPT ![w] = [IdleSale EXCEPT !.runs = tx[w].runs + 1, !.last = "ok"]]
    /\ UNCHANGED <<forecasts, today, call, alerts, pg, obs>>

InitSales ==
    /\ \E stock \in 0..MaxStock :
        /\ catalog = [safety |-> 7, products |-> <<ProductRecord(1, 0, 10, stock, 0, 0)>>]
        /\ obs = [rows |-> {}, during |-> {}, opening |-> stock]
    /\ sales = <<>>
    /\ today = FirstDay
    /\ forecasts = [k \in Users \X ProductIds |-> <<>>]
    /\ alerts = NoAlerts
    /\ call = NoCall
    /\ pg = NoPg
    /\ tx = [w \in Writers |-> IdleSale]

NextSales ==
    \/ \E w \in Writers, u \in Users, q \in 1..MaxSaleQty : SaleCheck(w, u, q)
    \/ \E w \in Writers : SaleCommit(w)

SpecSales == InitSales /\ [][NextSales]_vars

\* C30: under any interleaving of create_sale requests for the product,
\* quantity_on_hand is never negative and, once the requests have ended, is
\* the quantity the requests started from less the total quantity of the
\* accepted sales
C30_StockConservation ==
    /\ catalog.products[1].quantity_on_hand >= 0
    /\ (\A w \in Writers : tx[w].pc = "idle") =>
            catalog.products[1].quantity_on_hand
                = obs.opening - SumSeq([i \in 1..Len(sales) |-> sales[i].q])

\* C12: a run of generate_alerts deletes or changes no alert that is resolved
\* or has been marked read: every such alert of before the run is in the
\* table, unchanged, after it
C12_ResolvedReadRetained ==
    AlertRan => \A p \in DOMAIN call.prior : \A i \in 1..Len(call.prior[p]) :
        (call.prior[p][i].is_resolved \/ call.prior[p][i].is_read) =>
            \E j \in 1..Len(alerts[p]) : alerts[p][j] = call.prior[p][i]

\* C13: an overstock alert is created only when available > 4 x
\* reorder_point, and carries no recommended_quantity; every stockout_warning
\* or low_stock alert carries one; available = 4 x reorder_point, above the
\* reorder point and with no earlier rule matching, yields no alert
C13_OverstockBoundary ==
    RunCompleted => \A p \in ProductsOf(AlertUser) :
        /\ \A i \in 1..Len(Unresolved(p)) :
            /\ Unresolved(p)[i].alert_type = "overstock" =>
                /\ Available(catalog.products[p]) > 4 * catalog.products[p].reorder_point
                /\ Unresolved(p)[i].recommended_quantity = <<>>
            /\ Unresolved(p)[i].alert_type \in {"stockout_warning", "low_stock"} =>
                Len(Unresolved(p)[i].recommended_quantity) = 1
        /\ (/\ Available(catalog.products[p]) = 4 * catalog.products[p].reorder_point
            /\ Available(catalog.products[p]) > catalog.products[p].reorder_point
            /\ ~Rule1(p) /\ ~Rule2(p)) => Unresolved(p) = <<>>

\* reorder_point 10: available 41 gave overstock / low without a quantity,
\* available 40 gave no alert
C13_Witness ==
    /\ RunCompleted
    /\ catalog.products[1].reorder_point = 10
    /\ Available(catalog.products[1]) = 41
    /\ IsAlert(1, "overstock", "low")
    /\ Unresolved(1)[1].recommended_quantity = <<>>
    /\ Available(catalog.products[2]) = 40
    /\ Unresolved(2) = <<>>

\* 30 x (avg_daily_demand x (lead_time + safety_stock_days + 30) - available
\* - quantity_on_order) for product p, with lead_time 7 without supplier
ReorderNeed30(p) ==
    LET product == catalog.products[p]
        lead == IF product.supplier_id = 0 THEN 7
                ELSE Suppliers[product.supplier_id].lead_time_days
    IN  TotalQty(AlertUser, p) * (lead + catalog.safety + 30)
            - 30 * (Available(product) + product.quantity_on_order)

\* the supplier's minimum_order_quantity, 1 without supplier
ReorderMinimum(p) ==
    IF catalog.products[p].supplier_id = 0 THEN 1
    ELSE Suppliers[catalog.products[p].supplier_id].minimum_order_quantity

\* the recommended quantities attached to the unresolved alerts of product p
AttachedQuantities(p) ==
    {Unresolved(p)[i].recommended_quantity[1] :
        i \in {k \in 1..Len(Unresolved(p)) : Unresolved(p)[k].recommended_quantity # <<>>}}

C15_ZeroDemandGuard ==
    AlertRan => \A p \in ProductsOf(AlertUser) :
        TotalQty(AlertUser, p) = 0 =>
            /\ call.outcome = "ok"
            /\ Available(catalog.products[p]) > 0 =>
                \A i \in 1..Len(Unresolved(p)) :
                    Unresolved(p)[i].alert_type # "stockout_warning"

\* C20: an error while evaluating one product does not abort the run of
\* generate_alerts: the run returns its summary, and every other product of
\* the tenant has been evaluated and its alert, if any, created and committed
C20_AlertBatchIsolation ==
    AlertRan =>
        /\ call.outcome = "ok"
        /\ \A p \in ProductsOf(AlertUser) :
            ~EvaluationRaises(catalog.products[p], AlertUser, catalog.safety) =>
                LET decision == AlertDecision(catalog.products[p], AlertUser, catalog.safety)
                IN  IF decision = NoDecision THEN Unresolved(p) = <<>>
                    ELSE /\ IsAlert(p, decision.alert_type, decision.priority)
                         /\ Unresolved(p)[1].created_at = call.at

====
